---- MODULE Spec2Model ----
(***************************************************************************)
(* Half-edge mesh of src/src/mesh.rs with the index type of                *)
(* src/src/index.rs.  The mesh is three arenas (verts, edges, faces);      *)
(* element i of an arena is position i+1 of the TLA+ sequence.  An         *)
(* Option<T> is the empty tuple (None) or a one-element tuple (Some(x)).   *)
(* A call that can panic returns a record whose field ok is FALSE when it  *)
(* panicked.                                                               *)
(***************************************************************************)
EXTENDS Integers, Sequences, FiniteSets, TLC

\* Bounds of the exploration.
MaxVerts == 2
MaxEdges == 2

\* Payloads handed to add_vertex / add_edge (opaque values V and E).
VertexPayloads == {5, 11}
EdgePayloads == {55, 31}

\* Index::max_value(), the sentinel.  `pub type Index = u32` makes it 2^32 - 1,
\* which TLC's integers cannot hold; the model's index type is 16 bits wide,
\* with the same truncating cast and the same comparisons.
IndexMax == 65535

\* The sentinel of a 2-bit index type, narrow enough for an arena to outgrow
\* it, and the arena length explored with it.
NarrowIndexMax == 3
NarrowLen == 5

\* The number of edges of the arbitrary (possibly ill-formed) meshes a
\* VertexEdgeIterator is stepped on.
CorruptEdges == 1

VARIABLES
    verts,             \* Mesh.verts : Vec<VertexInfo>
    edges,             \* Mesh.edges : Vec<EdgeInfo>
    faces,             \* Mesh.faces : Vec<FaceInfo>
    max_value,         \* Index::max_value() of the index type in use
    vertex_edge_iter,  \* Option<VertexEdgeIterator>: the live iterator, if any
    mesh_vertex_iter,  \* Option<MeshVertexIterator>
    mesh_edge_iter,    \* Option<MeshEdgeIterator>
    yielded,           \* indices of the cursors the live iterator has returned
    ended,             \* the live iterator's last next() returned None
    fault,             \* "none", or the call that panicked
    pre,               \* the mesh and arguments as they were when the panicking call began
    vcalls,            \* history of add_vertex calls: payload and returned index
    ecalls             \* history of completed add_edge calls: arguments and returned index

vars == <<verts, edges, faces, max_value, vertex_edge_iter, mesh_vertex_iter,
          mesh_edge_iter, yielded, ended, fault, pre, vcalls, ecalls>>

None == <<>>
Some(x) == <<x>>
IsSome(o) == Len(o) = 1
unwrap(o) == o[1]

Ok(x) == [ok |-> TRUE, val |-> x]
Panic == [ok |-> FALSE, val |-> None]

Mesh == [verts |-> verts, edges |-> edges, faces |-> faces]

(***************************************************************************)
(* index.rs                                                                *)
(***************************************************************************)
\* Mutant: indices are handed out one-based.
Index_new_one_based(x) == (x + 1) % (max_value + 1)

\* IndexType::new for u32: `x as u32`, a truncating cast.
Index_new(x) == x % (max_value + 1)

\* IndexType::is_valid for u32.
Index_is_valid(i) == i # max_value

\* IndexType::to_option (the trait's default method).
to_option(i) == IF Index_is_valid(i) THEN None ELSE Some(i)

\* wedge.rs: index_to_option, the free-standing conversion of the older
\* module.
index_to_option(i) == IF i = max_value THEN None ELSE Some(i)

(***************************************************************************)
(* mesh.rs: records                                                        *)
(***************************************************************************)
VertexInfo_new(data) == [base_edge_index |-> max_value, data |-> data]

\* Mutant: a new half-edge starts attached to face 0.
HalfEdgeInfo_new_on_face_zero ==
    [vertex_index |-> max_value, next_face_index |-> 0,
     next_edge_index |-> max_value, prev_edge_index |-> max_value]

HalfEdgeInfo_new ==
    [vertex_index |-> max_value, next_face_index |-> max_value,
     next_edge_index |-> max_value, prev_edge_index |-> max_value]

EdgeInfo_new(data) == [half_edge |-> <<HalfEdgeInfo_new, HalfEdgeInfo_new>>, data |-> data]

(***************************************************************************)
(* mesh.rs: Mesh validity checks and arena lookups                         *)
(***************************************************************************)
is_valid_vertex_index(m, index) == index < max_value /\ index < Len(m.verts)

is_valid_edge_index(m, index) == index < max_value /\ index < Len(m.edges)

is_valid_face_index(m, index) == index < max_value /\ index < Len(m.faces)

vertex_info(m, index) ==
    IF is_valid_vertex_index(m, index) THEN Some(m.verts[index + 1]) ELSE None

edge_info(m, index) ==
    IF is_valid_edge_index(m, index) THEN Some(m.edges[index + 1]) ELSE None

face_info(m, index) ==
    IF is_valid_face_index(m, index) THEN Some(m.faces[index + 1]) ELSE None

(***************************************************************************)
(* mesh.rs: cursors                                                        *)
(***************************************************************************)
VertexRef_is_valid(m, index) == is_valid_vertex_index(m, index)

VertexRef_data(m, index) ==
    IF VertexRef_is_valid(m, index)
    THEN Ok(Some(unwrap(vertex_info(m, index)).data))
    ELSE Ok(None)

EdgeRef_is_valid(m, index) == is_valid_edge_index(m, index)

EdgeRef_data(m, index) ==
    IF EdgeRef_is_valid(m, index)
    THEN Ok(Some(unwrap(edge_info(m, index)).data))
    ELSE Ok(None)

\* FaceRef::face_info unwraps the arena lookup; FaceRef::data returns &F.
FaceRef_face_info(m, index) ==
    IF IsSome(face_info(m, index)) THEN Ok(unwrap(face_info(m, index))) ELSE Panic

FaceRef_data(m, index) ==
    IF FaceRef_face_info(m, index).ok
    THEN Ok(FaceRef_face_info(m, index).val.data)
    ELSE Panic

(***************************************************************************)
(* mesh.rs: EdgeInfo helpers                                               *)
(***************************************************************************)
next_edge_index_for_vertex(edge, base_vertex_index) ==
    IF edge.half_edge[1].vertex_index = base_vertex_index
    THEN Ok(edge.half_edge[1].next_edge_index)
    ELSE IF edge.half_edge[2].vertex_index = base_vertex_index
         THEN Ok(edge.half_edge[2].next_edge_index)
         ELSE Panic

\* Mutant: only the first link is compared with the vertex.
previous_edge_index_for_vertex_first_link_only(edge, base_vertex_index) ==
    IF edge.half_edge[1].vertex_index = base_vertex_index
    THEN Ok(edge.half_edge[1].next_edge_index)
    ELSE Panic

previous_edge_index_for_vertex(edge, base_vertex_index) ==
    IF edge.half_edge[1].vertex_index = base_vertex_index
    THEN Ok(edge.half_edge[1].next_edge_index)
    ELSE IF edge.half_edge[2].vertex_index = base_vertex_index
         THEN Ok(edge.half_edge[2].next_edge_index)
         ELSE Panic

\* The position (1 or 2) of the half-edge the returned reference points at.
half_edge_for_vertex_mut(edge, v) ==
    IF edge.half_edge[1].vertex_index = v
    THEN Ok(1)
    ELSE IF edge.half_edge[2].vertex_index = v THEN Ok(2) ELSE Panic

(***************************************************************************)
(* mesh.rs: Mesh::add_vertex                                               *)
(***************************************************************************)
\* The returned index and the arena after the push.
add_vertex(m, v) ==
    [index |-> Index_new(Len(m.verts)),
     verts |-> Append(m.verts, VertexInfo_new(v))]

(***************************************************************************)
(* mesh.rs: Mesh::add_edge.  The loop state s carries the two arenas, the  *)
(* edge under construction (new_edge) and ok, FALSE once an assert fired.  *)
(***************************************************************************)
\* Lines 545-550: the predecessor found through the base edge is rewritten
\* when it is a valid edge index.
splice_after_previous(s, new_index, i, v, prev_edge_index) ==
    IF is_valid_edge_index(s, prev_edge_index)
    THEN LET prev_edge == s.edges[prev_edge_index + 1]
             prev_half_edge == half_edge_for_vertex_mut(prev_edge, v)
         IN IF prev_half_edge.ok
            THEN [s EXCEPT
                    !.edges[prev_edge_index + 1].half_edge[prev_half_edge.val].next_edge_index = new_index,
                    !.new_edge.half_edge[i + 1].prev_edge_index = new_index]
            ELSE [s EXCEPT !.ok = FALSE]
    ELSE s

\* Mutant: the new edge becomes the vertex's base edge on every call.
splice_into_ring_rebasing(s, new_index, i, v) ==
    LET base_edge_index == s.verts[v + 1].base_edge_index
        rebased == [s EXCEPT !.verts[v + 1].base_edge_index = new_index]
    IN IF is_valid_edge_index(s, base_edge_index)
       THEN LET base_edge == s.edges[base_edge_index + 1]
                prev_edge_index == previous_edge_index_for_vertex(base_edge, v)
            IN IF prev_edge_index.ok
               THEN splice_after_previous(rebased, new_index, i, v, prev_edge_index.val)
               ELSE [s EXCEPT !.ok = FALSE]
       ELSE rebased

\* Mutant: the new base edge is stored at the loop counter i, not at the
\* vertex v (an out-of-range i is an index panic).
splice_into_ring_at_loop_counter(s, new_index, i, v) ==
    LET base_edge_index == s.verts[v + 1].base_edge_index
    IN IF is_valid_edge_index(s, base_edge_index)
       THEN LET base_edge == s.edges[base_edge_index + 1]
                prev_edge_index == previous_edge_index_for_vertex(base_edge, v)
            IN IF prev_edge_index.ok
               THEN splice_after_previous(s, new_index, i, v, prev_edge_index.val)
               ELSE [s EXCEPT !.ok = FALSE]
       ELSE IF i < Len(s.verts)
            THEN [s EXCEPT !.verts[i + 1].base_edge_index = new_index]
            ELSE [s EXCEPT !.ok = FALSE]

\* Lines 541-553: the vertex's ring is entered through its base edge, or the
\* new edge becomes the base edge.
splice_into_ring(s, new_index, i, v) ==
    LET base_edge_index == s.verts[v + 1].base_edge_index
    IN IF is_valid_edge_index(s, base_edge_index)
       THEN LET base_edge == s.edges[base_edge_index + 1]
                prev_edge_index == previous_edge_index_for_vertex(base_edge, v)
            IN IF prev_edge_index.ok
               THEN splice_after_previous(s, new_index, i, v, prev_edge_index.val)
               ELSE [s EXCEPT !.ok = FALSE]
       ELSE [s EXCEPT !.verts[v + 1].base_edge_index = new_index]

\* Mutant: both passes write the first half-edge (the index i is dropped).
link_new_half_edge_first_slot(new_edge, i, base_edge_index, v) ==
    [new_edge EXCEPT !.half_edge[1].next_edge_index = base_edge_index,
                     !.half_edge[1].vertex_index = v]

\* Mutant: the vertex of the new half-edge is never stored.
link_new_half_edge_no_vertex(new_edge, i, base_edge_index, v) ==
    [new_edge EXCEPT !.half_edge[i + 1].next_edge_index = base_edge_index]

\* Lines 554-555: the new half-edge's own fields.
link_new_half_edge(new_edge, i, base_edge_index, v) ==
    [new_edge EXCEPT !.half_edge[i + 1].next_edge_index = base_edge_index,
                     !.half_edge[i + 1].vertex_index = v]

\* One pass of `for (i, v) in [v1, v2].iter().enumerate()`.
add_edge_endpoint(s, new_index, i, v) ==
    IF ~s.ok
    THEN s
    ELSE IF ~is_valid_vertex_index(s, v)
         THEN [s EXCEPT !.ok = FALSE]
         ELSE LET base_edge_index == s.verts[v + 1].base_edge_index
                  spliced == splice_into_ring(s, new_index, i, v)
              IN IF spliced.ok
                 THEN [spliced EXCEPT
                         !.new_edge = link_new_half_edge(spliced.new_edge, i, base_edge_index, v)]
                 ELSE spliced

\* The whole call: index (the value returned), the arenas as the call leaves
\* them, and ok = FALSE when it panicked before the push.
add_edge(m, e, v1, v2) ==
    LET new_index == Index_new(Len(m.edges))
        s0 == [verts |-> m.verts, edges |-> m.edges, new_edge |-> EdgeInfo_new(e), ok |-> TRUE]
        s1 == add_edge_endpoint(s0, new_index, 0, v1)
        s2 == add_edge_endpoint(s1, new_index, 1, v2)
    IN IF s2.ok
       THEN [ok |-> TRUE, index |-> new_index, verts |-> s2.verts,
             edges |-> Append(s2.edges, s2.new_edge)]
       ELSE [ok |-> FALSE, index |-> new_index, verts |-> s2.verts, edges |-> s2.edges]

(***************************************************************************)
(* mesh.rs: VertexEdgeIterator                                             *)
(***************************************************************************)
VertexEdgeIterator_new(m, index) ==
    IF VertexRef_is_valid(m, index)
    THEN LET base_edge == to_option(unwrap(vertex_info(m, index)).base_edge_index)
         IN [base_vertex_index |-> index,
             start_edge_index |-> base_edge,
             current_edge_index |-> base_edge]
    ELSE [base_vertex_index |-> max_value,
          start_edge_index |-> None,
          current_edge_index |-> None]

current_edge(m, it) ==
    IF IsSome(it.current_edge_index)
    THEN edge_info(m, unwrap(it.current_edge_index))
    ELSE None

\* Lines 169-178: the comparison with the start edge, after next_edge_index
\* has been read.  `start_edge_index.unwrap()` panics on None.
VertexEdgeIterator_advance(it, next_edge_index) ==
    IF ~IsSome(it.start_edge_index)
    THEN [ok |-> FALSE, iter |-> it, item |-> None]
    ELSE IF unwrap(it.start_edge_index) = next_edge_index
         THEN [ok |-> TRUE, iter |-> [it EXCEPT !.current_edge_index = None], item |-> None]
         ELSE [ok |-> TRUE,
               iter |-> [it EXCEPT !.current_edge_index = Some(next_edge_index)],
               item |-> Some(next_edge_index)]

\* Mutant: a call without a current edge yields edge 0 instead of ending.
VertexEdgeIterator_next_never_ending(m, it) ==
    LET cur == current_edge(m, it)
    IN IF ~IsSome(cur)
       THEN [ok |-> TRUE, iter |-> it, item |-> Some(0)]
       ELSE LET edge == unwrap(cur)
            IN IF edge.half_edge[1].vertex_index = it.base_vertex_index
               THEN VertexEdgeIterator_advance(it, edge.half_edge[1].next_edge_index)
               ELSE IF edge.half_edge[2].vertex_index = it.base_vertex_index
                    THEN VertexEdgeIterator_advance(it, edge.half_edge[2].next_edge_index)
                    ELSE [ok |-> FALSE, iter |-> it, item |-> None]

\* Mutant: next() without the assert of lines 162-163; an edge whose first
\* link is not the base vertex's is followed through its second link.
VertexEdgeIterator_next_unchecked(m, it) ==
    LET cur == current_edge(m, it)
    IN IF ~IsSome(cur)
       THEN [ok |-> TRUE, iter |-> it, item |-> None]
       ELSE LET edge == unwrap(cur)
            IN IF edge.half_edge[1].vertex_index = it.base_vertex_index
               THEN VertexEdgeIterator_advance(it, edge.half_edge[1].next_edge_index)
               ELSE VertexEdgeIterator_advance(it, edge.half_edge[2].next_edge_index)

\* One call of next(): the iterator afterwards, the item returned (the index
\* of the EdgeRef, or None) and ok = FALSE when an assert or unwrap panicked.
VertexEdgeIterator_next(m, it) ==
    LET cur == current_edge(m, it)
    IN IF ~IsSome(cur)
       THEN [ok |-> TRUE, iter |-> it, item |-> None]
       ELSE LET edge == unwrap(cur)
            IN IF edge.half_edge[1].vertex_index = it.base_vertex_index
               THEN VertexEdgeIterator_advance(it, edge.half_edge[1].next_edge_index)
               ELSE IF edge.half_edge[2].vertex_index = it.base_vertex_index
                    THEN VertexEdgeIterator_advance(it, edge.half_edge[2].next_edge_index)
                    ELSE [ok |-> FALSE, iter |-> it, item |-> None]

(***************************************************************************)
(* mesh.rs: arena-order iterators                                          *)
(***************************************************************************)
MeshVertexIterator_new == [vertex_index |-> 0]

\* Mutant: the cursor is built after the increment.
MeshVertexIterator_next_after_increment(m, it) ==
    IF is_valid_vertex_index(m, it.vertex_index)
    THEN [iter |-> [it EXCEPT !.vertex_index = it.vertex_index + 1],
          item |-> Some(it.vertex_index + 1)]
    ELSE [iter |-> it, item |-> None]

MeshVertexIterator_next(m, it) ==
    IF is_valid_vertex_index(m, it.vertex_index)
    THEN [iter |-> [it EXCEPT !.vertex_index = it.vertex_index + 1],
          item |-> Some(it.vertex_index)]
    ELSE [iter |-> it, item |-> None]

\* The iterator holds an EdgeRef; next() swaps in the cursor of index + 1 and
\* returns the one it held.
MeshEdgeIterator_new == [edge_index |-> 0]

\* Mutant: the advanced cursor is returned instead of the swapped-out one.
MeshEdgeIterator_next_without_swap(m, it) ==
    IF EdgeRef_is_valid(m, it.edge_index)
    THEN [iter |-> [it EXCEPT !.edge_index = it.edge_index + 1],
          item |-> Some(it.edge_index + 1)]
    ELSE [iter |-> it, item |-> None]

MeshEdgeIterator_next(m, it) ==
    IF EdgeRef_is_valid(m, it.edge_index)
    THEN [iter |-> [it EXCEPT !.edge_index = it.edge_index + 1],
          item |-> Some(it.edge_index)]
    ELSE [iter |-> it, item |-> None]

(***************************************************************************)
(* The program as a state machine.  A mutating call needs `&mut Mesh`, so  *)
(* it can run only while no iterator borrows the mesh; a panic ends the    *)
(* run.                                                                    *)
(***************************************************************************)
NoIterator ==
    /\ vertex_edge_iter = None
    /\ mesh_vertex_iter = None
    /\ mesh_edge_iter = None

NoCall == [verts |-> <<>>, edges |-> <<>>, v1 |-> 0, v2 |-> 0]

\* Index values a caller may pass: every valid one, the first invalid one,
\* and the sentinel.
VertexArgs == (0 .. Len(verts)) \cup {max_value}

Init ==
    /\ verts = <<>>
    /\ edges = <<>>
    /\ faces = <<>>
    /\ max_value = IndexMax
    /\ vertex_edge_iter = None
    /\ mesh_vertex_iter = None
    /\ mesh_edge_iter = None
    /\ yielded = <<>>
    /\ ended = FALSE
    /\ fault = "none"
    /\ pre = NoCall
    /\ vcalls = <<>>
    /\ ecalls = <<>>

\* add_vertex while the vertex arena holds fewer than `limit` records.
AddVertexUpTo(limit, v) ==
    /\ fault = "none"
    /\ NoIterator
    /\ Len(verts) < limit
    /\ LET r == add_vertex(Mesh, v)
       IN /\ verts' = r.verts
          /\ vcalls' = Append(vcalls, [v |-> v, ret |-> r.index])
    /\ UNCHANGED <<edges, faces, max_value, vertex_edge_iter, mesh_vertex_iter,
                   mesh_edge_iter, yielded, ended, fault, pre, ecalls>>

AddVertex(v) == AddVertexUpTo(MaxVerts, v)

\* add_edge while the edge arena holds fewer than `limit` records.
AddEdgeUpTo(limit, e, v1, v2) ==
    /\ fault = "none"
    /\ NoIterator
    /\ Len(edges) < limit
    /\ LET r == add_edge(Mesh, e, v1, v2)
       IN /\ verts' = r.verts
          /\ edges' = r.edges
          /\ fault' = IF r.ok THEN "none" ELSE "add_edge"
          /\ pre' = IF r.ok THEN pre
                    ELSE [verts |-> verts, edges |-> edges, v1 |-> v1, v2 |-> v2]
          /\ ecalls' = IF r.ok
                       THEN Append(ecalls, [e |-> e, v1 |-> v1, v2 |-> v2, ret |-> r.index])
                       ELSE ecalls
    /\ UNCHANGED <<faces, max_value, vertex_edge_iter, mesh_vertex_iter,
                   mesh_edge_iter, yielded, ended, vcalls>>

AddEdge(e, v1, v2) == AddEdgeUpTo(MaxEdges, e, v1, v2)

\* mesh.vertex(index).edge_iter()
VertexEdgeIter(index) ==
    /\ fault = "none"
    /\ NoIterator
    /\ vertex_edge_iter' = Some(VertexEdgeIterator_new(Mesh, index))
    /\ yielded' = <<>>
    /\ ended' = FALSE
    /\ UNCHANGED <<verts, edges, faces, max_value, mesh_vertex_iter, mesh_edge_iter,
                   fault, pre, vcalls, ecalls>>

VertexEdgeIterNext ==
    /\ fault = "none"
    /\ IsSome(vertex_edge_iter)
    /\ Len(yielded) <= Len(edges)
    /\ LET r == VertexEdgeIterator_next(Mesh, unwrap(vertex_edge_iter))
       IN /\ vertex_edge_iter' = Some(r.iter)
          /\ fault' = IF r.ok THEN "none" ELSE "edge_iter"
          /\ yielded' = IF r.ok /\ IsSome(r.item) THEN Append(yielded, unwrap(r.item))
                        ELSE yielded
          /\ ended' = (r.ok /\ ~IsSome(r.item))
    /\ UNCHANGED <<verts, edges, faces, max_value, mesh_vertex_iter, mesh_edge_iter,
                   pre, vcalls, ecalls>>

\* mesh.vertex_iter()
MeshVertexIter ==
    /\ fault = "none"
    /\ NoIterator
    /\ mesh_vertex_iter' = Some(MeshVertexIterator_new)
    /\ yielded' = <<>>
    /\ ended' = FALSE
    /\ UNCHANGED <<verts, edges, faces, max_value, vertex_edge_iter, mesh_edge_iter,
                   fault, pre, vcalls, ecalls>>

MeshVertexIterNext ==
    /\ fault = "none"
    /\ IsSome(mesh_vertex_iter)
    /\ LET r == MeshVertexIterator_next(Mesh, unwrap(mesh_vertex_iter))
       IN /\ mesh_vertex_iter' = Some(r.iter)
          /\ yielded' = IF IsSome(r.item) THEN Append(yielded, unwrap(r.item)) ELSE yielded
          /\ ended' = ~IsSome(r.item)
    /\ UNCHANGED <<verts, edges, faces, max_value, vertex_edge_iter, mesh_edge_iter,
                   fault, pre, vcalls, ecalls>>

\* mesh.edge_iter()
MeshEdgeIter ==
    /\ fault = "none"
    /\ NoIterator
    /\ mesh_edge_iter' = Some(MeshEdgeIterator_new)
    /\ yielded' = <<>>
    /\ ended' = FALSE
    /\ UNCHANGED <<verts, edges, faces, max_value, vertex_edge_iter, mesh_vertex_iter,
                   fault, pre, vcalls, ecalls>>

MeshEdgeIterNext ==
    /\ fault = "none"
    /\ IsSome(mesh_edge_iter)
    /\ LET r == MeshEdgeIterator_next(Mesh, unwrap(mesh_edge_iter))
       IN /\ mesh_edge_iter' = Some(r.iter)
          /\ yielded' = IF IsSome(r.item) THEN Append(yielded, unwrap(r.item)) ELSE yielded
          /\ ended' = ~IsSome(r.item)
    /\ UNCHANGED <<verts, edges, faces, max_value, vertex_edge_iter, mesh_vertex_iter,
                   fault, pre, vcalls, ecalls>>

\* The live iterator goes out of scope.
DropIterator ==
    /\ fault = "none"
    /\ ~NoIterator
    /\ vertex_edge_iter' = None
    /\ mesh_vertex_iter' = None
    /\ mesh_edge_iter' = None
    /\ yielded' = <<>>
    /\ ended' = FALSE
    /\ UNCHANGED <<verts, edges, faces, max_value, fault, pre, vcalls, ecalls>>

Next ==
    \/ \E v \in VertexPayloads : AddVertex(v)
    \/ \E e \in EdgePayloads, v1 \in VertexArgs, v2 \in VertexArgs : AddEdge(e, v1, v2)
    \/ \E index \in VertexArgs : VertexEdgeIter(index)
    \/ VertexEdgeIterNext
    \/ MeshVertexIter
    \/ MeshVertexIterNext
    \/ MeshEdgeIter
    \/ MeshEdgeIterNext
    \/ DropIterator

Spec == Init /\ [][Next]_vars

\* The builder alone: the runs in which no iterator is ever created.  The
\* iterators borrow the mesh immutably and change none of its fields, so the
\* meshes reached are those of Spec.
NextBuilder ==
    \/ \E v \in VertexPayloads : AddVertex(v)
    \/ \E e \in EdgePayloads, v1 \in VertexArgs, v2 \in VertexArgs : AddEdge(e, v1, v2)

SpecBuilder == Init /\ [][NextBuilder]_vars

\* The builder over a 2-bit index type, with arenas that may grow past the
\* sentinel.  One payload of each kind and endpoints among vertices 0, 1 and
\* the sentinel keep the arenas' lengths, not their contents, the subject.
OnePayload(S) == {CHOOSE p \in S : TRUE}

InitNarrow ==
    /\ verts = <<>>
    /\ edges = <<>>
    /\ faces = <<>>
    /\ max_value = NarrowIndexMax
    /\ vertex_edge_iter = None
    /\ mesh_vertex_iter = None
    /\ mesh_edge_iter = None
    /\ yielded = <<>>
    /\ ended = FALSE
    /\ fault = "none"
    /\ pre = NoCall
    /\ vcalls = <<>>
    /\ ecalls = <<>>

NextNarrow ==
    \/ \E v \in OnePayload(VertexPayloads) : AddVertexUpTo(NarrowLen, v)
    \/ \E e \in OnePayload(EdgePayloads), v1 \in {0, 1, max_value}, v2 \in {0, 1, max_value} :
          AddEdgeUpTo(NarrowLen, e, v1, v2)

SpecNarrow == InitNarrow /\ [][NextNarrow]_vars

(***************************************************************************)
(* Arbitrary mesh states.  VertexEdgeIterator::next reads only the edge     *)
(* arena and the iterator's own fields; here they hold any values of their  *)
(* types: links that name any of three vertices and any edge or the         *)
(* sentinel, well-formed or not.  The only operation is next().             *)
(***************************************************************************)
CorruptVertices == 0 .. 2

CorruptEdgeIndices == (0 .. CorruptEdges - 1) \cup {max_value}

\* struct HalfEdgeInfo with any vertex and any next_edge.
CorruptLinks ==
    [vertex_index : 0 .. 1, next_face_index : {max_value},
     next_edge_index : CorruptEdgeIndices, prev_edge_index : {max_value}]

\* struct VertexEdgeIterator with any field values.
CorruptIterators ==
    [base_vertex_index : CorruptVertices,
     start_edge_index : {None} \cup {Some(j) : j \in 0 .. CorruptEdges - 1},
     current_edge_index : {None} \cup {Some(j) : j \in CorruptEdgeIndices}]

InitCorrupt ==
    /\ max_value = IndexMax
    /\ verts = [i \in 1 .. 3 |-> VertexInfo_new(5)]
    /\ edges \in [1 .. CorruptEdges ->
                    [half_edge : CorruptLinks \X CorruptLinks, data : {55}]]
    /\ faces = <<>>
    /\ vertex_edge_iter \in {Some(it) : it \in CorruptIterators}
    /\ mesh_vertex_iter = None
    /\ mesh_edge_iter = None
    /\ yielded = <<>>
    /\ ended = FALSE
    /\ fault = "none"
    /\ pre = NoCall
    /\ vcalls = <<>>
    /\ ecalls = <<>>

NextCorrupt == VertexEdgeIterNext

SpecCorrupt == InitCorrupt /\ [][NextCorrupt]_vars

(***************************************************************************)
(* Vocabulary of the properties                                            *)
(***************************************************************************)
Range(seq) == {seq[j] : j \in 1 .. Len(seq)}

NoDuplicates(seq) == \A j, k \in 1 .. Len(seq) : seq[j] = seq[k] => j = k

Occurrences(seq, x) == Cardinality({j \in 1 .. Len(seq) : seq[j] = x})

ValidVertices == {V \in 0 .. Len(verts) : is_valid_vertex_index(Mesh, V)}

HasEndpoint(edge, V) ==
    \/ edge.half_edge[1].vertex_index = V
    \/ edge.half_edge[2].vertex_index = V

\* The indices of the edges having V as an endpoint.
IncidentEdges(V) == {n \in 0 .. Len(edges) - 1 : HasEndpoint(edges[n + 1], V)}

\* The vertex the live VertexEdgeIterator walks around.
IterVertex == unwrap(vertex_edge_iter).base_vertex_index

\* The edges met by following, at most n times from edge index e, the
\* next_edge of the half-edge whose vertex is V; the walk stops at an index
\* that is no edge or at an edge without V.
RECURSIVE RingWalk(_, _, _)
RingWalk(V, e, n) ==
    IF n = 0 \/ ~is_valid_edge_index(Mesh, e)
    THEN <<>>
    ELSE IF ~HasEndpoint(edges[e + 1], V)
         THEN <<>>
         ELSE <<e>> \o RingWalk(V, next_edge_index_for_vertex(edges[e + 1], V).val, n - 1)

\* Index values a reader may query: valid ones, the first invalid ones, the sentinel.
QueryIndices == (0 .. Len(verts) + 1) \cup (0 .. Len(edges) + 1) \cup {max_value}

(***************************************************************************)
(* Properties                                                              *)
(***************************************************************************)

\* C1: a finished vertex(V).edge_iter() on a valid vertex V has yielded each
\* edge incident to V exactly once and nothing else (k cursors for k
\* incident edges, pairwise distinct).
C1_VertexEdgesAreTheIncidentEdges ==
    (IsSome(vertex_edge_iter) /\ ended /\ is_valid_vertex_index(Mesh, IterVertex))
        => /\ NoDuplicates(yielded)
           /\ Range(yielded) = IncidentEdges(IterVertex)

\* C2: ring invariant I1: for a vertex V with k >= 1 incident edges and base
\* edge B, k steps along next_edge from B visit every incident edge exactly
\* once and the k-th step is back at B.
C2_RingInvariant ==
    fault = "none" =>
        \A V \in ValidVertices :
            LET k == Cardinality(IncidentEdges(V))
                B == verts[V + 1].base_edge_index
                walk == RingWalk(V, B, k)
            IN k >= 1 =>
                /\ is_valid_edge_index(Mesh, B)
                /\ Len(walk) = k
                /\ NoDuplicates(walk)
                /\ Range(walk) = IncidentEdges(V)
                /\ next_edge_index_for_vertex(edges[walk[k] + 1], V).val = B

\* C3: an add_edge that fails because v1 or v2 is no valid vertex index
\* leaves the mesh exactly as it was before the call.
C3_FailedAddEdgeLeavesMeshUnchanged ==
    (/\ fault = "add_edge"
     /\ (~is_valid_vertex_index(pre, pre.v1) \/ ~is_valid_vertex_index(pre, pre.v2)))
        => /\ verts = pre.verts
           /\ edges = pre.edges

\* C4: the i-th add_vertex call returned i, vertex(i).data() is that call's
\* payload ever after, and mesh.vertex_iter() yields 0, 1, ..., n-1 in this
\* order and ends exactly after n items.
C4_VertexIndicesAndArenaOrder ==
    /\ Len(vcalls) = Len(verts)
    /\ \A i \in 1 .. Len(vcalls) :
          /\ vcalls[i].ret = i - 1
          /\ VertexRef_data(Mesh, i - 1).ok
          /\ VertexRef_data(Mesh, i - 1).val = Some(vcalls[i].v)
    /\ IsSome(mesh_vertex_iter) =>
          /\ \A j \in 1 .. Len(yielded) : yielded[j] = j - 1
          /\ Len(yielded) <= Len(verts)
          /\ ended => Len(yielded) = Len(verts)
          /\ MeshVertexIterator_next(Mesh, unwrap(mesh_vertex_iter)).item
                = IF Len(yielded) < Len(verts) THEN Some(Len(yielded)) ELSE None

C4_Witness ==
    /\ IsSome(mesh_vertex_iter)
    /\ ended
    /\ Len(verts) >= 2
    /\ Len(edges) >= 1
    /\ verts[1].data # verts[2].data

\* C5: the j-th successful add_edge call returned j, and mesh.edge_iter()
\* yields 0, 1, ..., m-1 in this order (so the payloads in insertion order)
\* and ends exactly after m items, whenever it is started.
C5_EdgeIndicesAndArenaOrder ==
    /\ Len(ecalls) = Len(edges)
    /\ \A j \in 1 .. Len(ecalls) :
          /\ ecalls[j].ret = j - 1
          /\ edges[j].data = ecalls[j].e
    /\ IsSome(mesh_edge_iter) =>
          /\ \A j \in 1 .. Len(yielded) : yielded[j] = j - 1
          /\ Len(yielded) <= Len(edges)
          /\ ended => Len(yielded) = Len(edges)
          /\ MeshEdgeIterator_next(Mesh, unwrap(mesh_edge_iter)).item
                = IF Len(yielded) < Len(edges) THEN Some(Len(yielded)) ELSE None

C5_Witness ==
    /\ IsSome(mesh_edge_iter)
    /\ ended
    /\ Len(edges) >= 2
    /\ edges[1].data # edges[2].data

\* C6: round trip of add_edge: the edge returned as n by add_edge(e, v1, v2)
\* keeps half_edge[0].vertex = v1, half_edge[1].vertex = v2 and data() = e
\* through every later operation.
C6_AddEdgeRoundTrip ==
    \A j \in 1 .. Len(ecalls) :
        LET n == ecalls[j].ret
        IN /\ is_valid_edge_index(Mesh, n)
           /\ edges[n + 1].half_edge[1].vertex_index = ecalls[j].v1
           /\ edges[n + 1].half_edge[2].vertex_index = ecalls[j].v2
           /\ EdgeRef_data(Mesh, n).ok
           /\ EdgeRef_data(Mesh, n).val = Some(ecalls[j].e)

\* A first edge between two different vertices, followed by a later edge on
\* one of its endpoints.
C6_Witness ==
    /\ Len(ecalls) >= 2
    /\ ecalls[1].v1 # ecalls[1].v2
    /\ ecalls[2].v1 \in {ecalls[1].v1, ecalls[1].v2}
    /\ ecalls[1].e # ecalls[2].e

\* C7: after a self-loop add_edge(p, v, v) returned n, a finished
\* vertex(v).edge_iter() has yielded n exactly once.
C7_SelfLoopYieldedOnce ==
    (IsSome(vertex_edge_iter) /\ ended /\ is_valid_vertex_index(Mesh, IterVertex))
        => \A j \in 1 .. Len(ecalls) :
              (ecalls[j].v1 = IterVertex /\ ecalls[j].v2 = IterVertex)
                  => Occurrences(yielded, ecalls[j].ret) = 1

\* C8: vertex(V).edge_iter() on a valid V with base edge B yields B first,
\* then the next_edge (around V) of the element before, and ends when that
\* next is B; with no base edge it yields nothing.
C8_VertexEdgeOrder ==
    (IsSome(vertex_edge_iter) /\ is_valid_vertex_index(Mesh, IterVertex))
        => LET B == verts[IterVertex + 1].base_edge_index
           IN IF B = max_value
              THEN yielded = <<>>
              ELSE /\ Len(yielded) >= 1 => yielded[1] = B
                   /\ \A j \in 2 .. Len(yielded) :
                         /\ is_valid_edge_index(Mesh, yielded[j - 1])
                         /\ HasEndpoint(edges[yielded[j - 1] + 1], IterVertex)
                         /\ yielded[j] = next_edge_index_for_vertex(
                                             edges[yielded[j - 1] + 1], IterVertex).val
                   /\ ended =>
                         /\ Len(yielded) >= 1
                         /\ is_valid_edge_index(Mesh, yielded[Len(yielded)])
                         /\ HasEndpoint(edges[yielded[Len(yielded)] + 1], IterVertex)
                         /\ next_edge_index_for_vertex(
                                edges[yielded[Len(yielded)] + 1], IterVertex).val = B

\* C9: for every index i, a cursor is valid iff i is below the arena length,
\* and data() never fails: the payload when valid, absent otherwise; for
\* vertex, edge and face cursors alike.
C9_AccessorsNeverFail ==
    \A i \in QueryIndices :
        /\ VertexRef_is_valid(Mesh, i) <=> i < Len(verts)
        /\ VertexRef_data(Mesh, i).ok
        /\ VertexRef_data(Mesh, i).val
              = IF i < Len(verts) THEN Some(verts[i + 1].data) ELSE None
        /\ EdgeRef_is_valid(Mesh, i) <=> i < Len(edges)
        /\ EdgeRef_data(Mesh, i).ok
        /\ EdgeRef_data(Mesh, i).val
              = IF i < Len(edges) THEN Some(edges[i + 1].data) ELSE None
        /\ is_valid_face_index(Mesh, i) <=> i < Len(faces)
        /\ FaceRef_data(Mesh, i).ok

\* C10 as stated (invariant I2): the two half-edge links of every edge hold
\* valid vertex indices that are distinct from each other.
C10_EndpointsValidAndDistinct ==
    fault = "none" =>
        \A n \in 1 .. Len(edges) :
            /\ is_valid_vertex_index(Mesh, edges[n].half_edge[1].vertex_index)
            /\ is_valid_vertex_index(Mesh, edges[n].half_edge[2].vertex_index)
            /\ edges[n].half_edge[1].vertex_index # edges[n].half_edge[2].vertex_index

\* C10 amended: the two half-edge links of every edge hold valid vertex
\* indices, and they are distinct from each other unless the edge was added
\* as a self-loop add_edge(p, v, v), which stores v in both.
C10_EndpointsValidDistinctUnlessSelfLoop ==
    /\ Len(ecalls) = Len(edges)
    /\ \A n \in 1 .. Len(edges) :
          /\ is_valid_vertex_index(Mesh, edges[n].half_edge[1].vertex_index)
          /\ is_valid_vertex_index(Mesh, edges[n].half_edge[2].vertex_index)
          /\ (edges[n].half_edge[1].vertex_index = edges[n].half_edge[2].vertex_index)
                <=> (ecalls[n].v1 = ecalls[n].v2)

\* An edge between two vertices next to a self-loop.
C10_Witness ==
    /\ fault = "none"
    /\ \E n \in 1 .. Len(edges) :
          edges[n].half_edge[1].vertex_index = edges[n].half_edge[2].vertex_index
    /\ \E n \in 1 .. Len(edges) :
          edges[n].half_edge[1].vertex_index # edges[n].half_edge[2].vertex_index

\* C11: arena bound / sentinel exclusivity (I4): add_vertex and add_edge
\* succeed only while the arena is shorter than the sentinel, so no arena
\* outgrows it; no call returns the sentinel as an index, and no call
\* returns an index an earlier call returned.
C11_ArenaBoundAndSentinelExclusive ==
    /\ Len(verts) <= max_value
    /\ Len(edges) <= max_value
    /\ \A i \in 1 .. Len(vcalls) : vcalls[i].ret # max_value
    /\ \A i, j \in 1 .. Len(vcalls) : vcalls[i].ret = vcalls[j].ret => i = j
    /\ \A i \in 1 .. Len(ecalls) : ecalls[i].ret # max_value
    /\ \A i, j \in 1 .. Len(ecalls) : ecalls[i].ret = ecalls[j].ret => i = j

\* The add_edge call a step completed, when the step is a successful add_edge.
IsAddEdgeStep == Len(edges') = Len(edges) + 1

LastCall == ecalls'[Len(ecalls')]

\* What v1's side of the call looks like in a result r of add_edge on the
\* current mesh: v1's base edge, the new edge's first link, and every link of
\* an existing edge whose vertex is v1.
SideOfFirstEndpoint(r, v1) ==
    [base |-> r.verts[v1 + 1].base_edge_index,
     link |-> r.edges[Len(edges) + 1].half_edge[1],
     ring |-> [j \in 1 .. Len(edges) |->
                 [h \in 1 .. 2 |->
                    IF edges[j].half_edge[h].vertex_index = v1
                    THEN r.edges[j].half_edge[h]
                    ELSE HalfEdgeInfo_new]]]

\* The same call with another second endpoint: an existing vertex other than
\* v1, or a vertex added just before the call.
OtherSecondEndpoints(c) ==
    {add_edge(Mesh, c.e, c.v1, w) : w \in ValidVertices \ {c.v1, c.v2}}
        \cup {add_edge([Mesh EXCEPT !.verts = Append(verts, VertexInfo_new(p))],
                       c.e, c.v1, Len(verts)) :
                  p \in {q \in VertexPayloads : Len(verts) < max_value}}

C12_FrameOfStep ==
    /\ Len(verts') = Len(verts) + 1 =>
          /\ \A i \in 1 .. Len(verts) : verts'[i] = verts[i]
          /\ edges' = edges
          /\ faces' = faces
    /\ IsAddEdgeStep =>
          LET c == LastCall
          IN /\ Len(verts') = Len(verts)
             /\ faces' = faces
             /\ \A i \in 1 .. Len(verts) : verts'[i].data = verts[i].data
             /\ \A j \in 1 .. Len(edges) : edges'[j].data = edges[j].data
             /\ \A i \in 1 .. Len(verts) :
                   (i - 1) \notin {c.v1, c.v2} => verts'[i] = verts[i]
             /\ \A j \in 1 .. Len(edges), h \in 1 .. 2 :
                   edges[j].half_edge[h].vertex_index \notin {c.v1, c.v2}
                       => edges'[j].half_edge[h] = edges[j].half_edge[h]
             /\ c.v1 # c.v2 =>
                   \A r \in OtherSecondEndpoints(c) :
                       /\ r.ok
                       /\ SideOfFirstEndpoint(r, c.v1)
                             = SideOfFirstEndpoint([verts |-> verts', edges |-> edges'], c.v1)

\* C12: frame of the builder: a successful add_edge leaves the vertex arena
\* length, every payload, the base_edge of every vertex other than v1 and
\* v2, and every existing link whose vertex is neither, unchanged; when
\* v1 # v2, what it writes on v1's side is what it would have written with
\* any other second endpoint.  add_vertex changes no existing record.
C12_Frame == [][C12_FrameOfStep]_vars

\* An edge between two different vertices, added after a self-loop on one
\* of them.
C12_Witness ==
    /\ fault = "none"
    /\ Len(ecalls) = 2
    /\ ecalls[1].v1 = ecalls[1].v2
    /\ ecalls[2].v1 # ecalls[2].v2
    /\ ecalls[1].v1 \in {ecalls[2].v1, ecalls[2].v2}

\* C13: in every state reachable by add_vertex/add_edge calls, the
\* next_face field of both links of every edge is the sentinel, and the face
\* arena is empty.
C13_NoFaceLinkage ==
    /\ faces = <<>>
    /\ \A j \in 1 .. Len(edges), h \in 1 .. 2 :
          edges[j].half_edge[h].next_face_index = max_value

\* Two edges over two vertices, the second one sharing both endpoints with
\* the first.
C13_Witness ==
    /\ Len(edges) = 2
    /\ edges[1].half_edge[1].vertex_index # edges[1].half_edge[2].vertex_index
    /\ edges[2].half_edge[1].vertex_index = edges[1].half_edge[2].vertex_index
    /\ edges[2].half_edge[2].vertex_index = edges[1].half_edge[1].vertex_index

\* The links of edge record `edge` whose vertex is V.
LinksFor(edge, V) == {h \in 1 .. 2 : edge.half_edge[h].vertex_index = V}

C14_EmptyRingSpliceOfStep ==
    IsAddEdgeStep =>
        LET c == LastCall
            n == c.ret
        IN \A v \in {c.v1, c.v2} :
              ~ is_valid_edge_index(Mesh, verts[v + 1].base_edge_index) =>
                  /\ verts'[v + 1].base_edge_index = n
                  /\ \A h \in LinksFor(edges'[n + 1], v) :
                        /\ edges'[n + 1].half_edge[h].next_edge_index = n
                        /\ edges'[n + 1].half_edge[h].prev_edge_index = n

\* C14: empty-ring splice: when add_edge(e, v1, v2) is applied and endpoint
\* v has no base_edge, afterwards v's base_edge is the new edge n and n's
\* link for v is a ring of one: its next_edge is n and its prev_edge is n.
C14_EmptyRingSplice == [][C14_EmptyRingSpliceOfStep]_vars

\* The edges (arena indices) with a link for V whose next_edge is B.
PredecessorsOf(B, V) ==
    {j \in 0 .. Len(edges) - 1 :
        \E h \in LinksFor(edges[j + 1], V) :
            edges[j + 1].half_edge[h].next_edge_index = B}

C15_NonEmptyRingSpliceOfStep ==
    IsAddEdgeStep =>
        LET c == LastCall
            n == c.ret
        IN c.v1 # c.v2 =>
           \A v \in {c.v1, c.v2} :
              LET B == verts[v + 1].base_edge_index
              IN is_valid_edge_index(Mesh, B) =>
                  /\ verts'[v + 1].base_edge_index = B
                  /\ \A h \in LinksFor(edges'[n + 1], v) :
                        edges'[n + 1].half_edge[h].next_edge_index = B
                  /\ \E L \in PredecessorsOf(B, v) :
                        /\ \A h \in LinksFor(edges'[n + 1], v) :
                              edges'[n + 1].half_edge[h].prev_edge_index = L
                        /\ \A h \in LinksFor(edges[L + 1], v) :
                              edges'[L + 1].half_edge[h].next_edge_index = n
                        /\ \A j \in 0 .. Len(edges) - 1 :
                              \A h \in LinksFor(edges[j + 1], v) :
                                 j # L => edges'[j + 1].half_edge[h]
                                             = edges[j + 1].half_edge[h]

\* C15: non-empty-ring splice: when add_edge is applied and endpoint v
\* already has base_edge B, afterwards v's base_edge is still B, the new
\* edge n's link for v has next_edge = B and prev_edge = L, where L is the
\* edge whose link for v had next_edge = B before the call, L's link for v
\* now has next_edge = n, and no other link of v's ring changes.
C15_NonEmptyRingSplice == [][C15_NonEmptyRingSpliceOfStep]_vars

\* C16: doubly-linked consistency: in every state reachable by successful
\* add_vertex/add_edge calls, for every vertex V and edges A, N incident to
\* V, A's link for V has next_edge = N iff N's link for V has prev_edge = A;
\* previous_edge_index_for_vertex(V) returns the prev_edge of the link
\* matching V.
C16_DoublyLinked ==
    fault = "none" =>
        \A V \in ValidVertices :
            /\ \A A, N \in IncidentEdges(V) :
                  (\E h \in LinksFor(edges[A + 1], V) :
                      edges[A + 1].half_edge[h].next_edge_index = N)
                  <=> (\E h \in LinksFor(edges[N + 1], V) :
                          edges[N + 1].half_edge[h].prev_edge_index = A)
            /\ \A A \in IncidentEdges(V) :
                  LET r == previous_edge_index_for_vertex(edges[A + 1], V)
                  IN /\ r.ok
                     /\ \E h \in LinksFor(edges[A + 1], V) :
                           r.val = edges[A + 1].half_edge[h].prev_edge_index

\* C17: IndexType::to_option returns 'absent' exactly for the sentinel and
\* 'present(i)' for every other index, so it agrees with index_to_option on
\* every input; consequently VertexEdgeIterator::new starts at the vertex's
\* base_edge when one exists and at 'absent' when the vertex is isolated.
C17_ToOptionIsTheReferenceConversion ==
    /\ \A i \in QueryIndices :
          /\ to_option(i) = index_to_option(i)
          /\ to_option(i) = (IF i = max_value THEN None ELSE Some(i))
    /\ fault = "none" =>
          \A V \in ValidVertices :
              LET it == VertexEdgeIterator_new(Mesh, V)
                  base == verts[V + 1].base_edge_index
                  start == IF base = max_value THEN None ELSE Some(base)
              IN /\ it.start_edge_index = start
                 /\ it.current_edge_index = start

\* C18: termination of vertex traversal: on every mesh reachable by
\* successful add_vertex/add_edge calls (self-loops included) and for every
\* vertex index, valid or not, the calls of next() on vertex(V).edge_iter()
\* never abort, yield at most edges.len() items (the call after that many
\* items returns 'end'), and once a call has returned 'end' every later call
\* returns 'end' too.
C18_VertexTraversalTerminates ==
    /\ fault # "edge_iter"
    /\ (IsSome(vertex_edge_iter) /\ fault = "none") =>
          LET it == unwrap(vertex_edge_iter)
              r == VertexEdgeIterator_next(Mesh, it)
          IN /\ r.ok
             /\ Len(yielded) <= Len(edges)
             /\ Len(yielded) = Len(edges) => ~IsSome(r.item)
             /\ ended => (~IsSome(r.item) /\ r.iter = it)

\* A traversal around a vertex carrying a self-loop and a second edge has
\* returned 'end'.
C18_Witness ==
    /\ IsSome(vertex_edge_iter)
    /\ ended
    /\ IterVertex \in ValidVertices
    /\ Len(edges) = 2
    /\ IncidentEdges(IterVertex) = {0, 1}
    /\ \E n \in 0 .. 1 :
          edges[n + 1].half_edge[1].vertex_index = edges[n + 1].half_edge[2].vertex_index

\* The live VertexEdgeIterator stands on an edge neither of whose links
\* references its base vertex.
OnUnconnectedEdge ==
    /\ IsSome(vertex_edge_iter)
    /\ LET it == unwrap(vertex_edge_iter)
           cur == current_edge(Mesh, it)
       IN /\ IsSome(cur)
          /\ ~ HasEndpoint(unwrap(cur), it.base_vertex_index)

C19_LoudFailureOfStep ==
    (fault = "none" /\ OnUnconnectedEdge) =>
        /\ fault' = "edge_iter"
        /\ yielded' = yielded
        /\ ~ ended'
        /\ vertex_edge_iter' = vertex_edge_iter

\* C19: loud failure on corruption: whenever next() is evaluated with a
\* current edge neither of whose links references the base vertex (in any
\* mesh state, well-formed or not), the step aborts: it yields no edge, does
\* not end the iteration silently, and does not advance the iterator.
C19_LoudFailure == [][C19_LoudFailureOfStep]_vars

\* next() has aborted on an edge that is not connected to the base vertex,
\* with a start edge present.
C19_Witness ==
    /\ fault = "edge_iter"
    /\ OnUnconnectedEdge
    /\ IsSome(unwrap(vertex_edge_iter).start_edge_index)

\* C20: add_edge is total on valid input: in every state reachable by
\* successful add_vertex/add_edge calls, add_edge(e, v1, v2) with v1 and v2
\* both valid (v1 = v2 allowed) completes and appends exactly one edge; its
\* internal 'edge not connected to vertex' assertions cannot fail.  A call
\* that did abort had an invalid endpoint.
C20_AddEdgeTotalOnValidInput ==
    /\ fault = "none" =>
          \A e \in EdgePayloads, v1 \in ValidVertices, v2 \in ValidVertices :
              LET r == add_edge(Mesh, e, v1, v2)
              IN /\ r.ok
                 /\ Len(r.edges) = Len(edges) + 1
                 /\ Len(r.verts) = Len(verts)
    /\ fault = "add_edge" =>
          \/ ~ is_valid_vertex_index([verts |-> pre.verts, edges |-> pre.edges], pre.v1)
          \/ ~ is_valid_vertex_index([verts |-> pre.verts, edges |-> pre.edges], pre.v2)

\* A self-loop was added on a vertex whose base edge reaches it through its
\* second link.
C20_Witness ==
    /\ fault = "none"
    /\ Len(ecalls) = 2
    /\ ecalls[1].v1 # ecalls[1].v2
    /\ ecalls[2].v1 = ecalls[1].v2
    /\ ecalls[2].v2 = ecalls[1].v2

SentinelOrValidEdge(index) == index = max_value \/ is_valid_edge_index(Mesh, index)

\* C21: referential integrity: after every successfully completed
\* add_vertex/add_edge call, every vertex's base_edge is the sentinel or a
\* valid index of an edge having that vertex as an endpoint; every
\* half-edge's vertex is a valid vertex index; every next_edge and prev_edge
\* is the sentinel or a valid edge index; and a vertex has a non-sentinel
\* base_edge iff at least one edge is incident to it.
C21_ReferentialIntegrity ==
    fault = "none" =>
        /\ \A V \in ValidVertices :
              LET base == verts[V + 1].base_edge_index
              IN /\ \/ base = max_value
                    \/ /\ is_valid_edge_index(Mesh, base)
                       /\ HasEndpoint(edges[base + 1], V)
                 /\ base # max_value <=> IncidentEdges(V) # {}
        /\ \A j \in 1 .. Len(edges), h \in 1 .. 2 :
              /\ is_valid_vertex_index(Mesh, edges[j].half_edge[h].vertex_index)
              /\ SentinelOrValidEdge(edges[j].half_edge[h].next_edge_index)
              /\ SentinelOrValidEdge(edges[j].half_edge[h].prev_edge_index)

\* Two vertices, one isolated, the other carrying two self-loops.
C21_Witness ==
    /\ fault = "none"
    /\ Len(verts) = 2
    /\ Len(edges) = 2
    /\ \E V \in ValidVertices :
          /\ IncidentEdges(V) = {0, 1}
          /\ \A W \in ValidVertices \ {V} :
                verts[W + 1].base_edge_index = max_value

\* Pass `for v` of add_edge, started in loop state s, enters the branch of
\* lines 545-550 that rewrites a predecessor's next_edge.
RewritesPredecessor(s, v) ==
    LET base_edge_index == s.verts[v + 1].base_edge_index
    IN /\ is_valid_edge_index(s, base_edge_index)
       /\ LET prev_edge_index ==
                  previous_edge_index_for_vertex(s.edges[base_edge_index + 1], v)
          IN prev_edge_index.ok /\ is_valid_edge_index(s, prev_edge_index.val)

C22_Shape ==
    fault = "none" =>
        /\ \A j \in 1 .. Len(edges), h \in 1 .. 2 :
              LET link == edges[j].half_edge[h]
              IN /\ link.prev_edge_index = max_value
                 /\ \/ link.next_edge_index = max_value
                    \/ link.next_edge_index = verts[link.vertex_index + 1].base_edge_index
        /\ \A V \in ValidVertices :
              LET base == verts[V + 1].base_edge_index
              IN is_valid_edge_index(Mesh, base) =>
                    LET r == next_edge_index_for_vertex(edges[base + 1], V)
                    IN r.ok /\ r.val = max_value
        /\ \A e \in EdgePayloads, v1 \in ValidVertices, v2 \in ValidVertices :
              LET new_index == Index_new(Len(edges))
                  s0 == [verts |-> verts, edges |-> edges,
                         new_edge |-> EdgeInfo_new(e), ok |-> TRUE]
                  s1 == add_edge_endpoint(s0, new_index, 0, v1)
              IN /\ ~ RewritesPredecessor(s0, v1)
                 /\ s1.ok
                 /\ ~ RewritesPredecessor(s1, v2)

C22_BaseEdgeStableOfStep ==
    \A i \in 1 .. Len(verts) :
        verts[i].base_edge_index # max_value
            => verts'[i].base_edge_index = verts[i].base_edge_index

====
